---- MODULE Spec2Model ----
(***************************************************************************)
(* rucky: lexer (src/src/lexer.rs) and parser (src/src/parser.rs).        *)
(*                                                                         *)
(* A source string is a sequence of bytes; a byte is a one-character       *)
(* string, and the byte of value 0 is NUL.  The lexer is the record        *)
(* [position, read_position, ch] of struct Lexer; its `input` field never  *)
(* changes after construction and is the variable `input`.                 *)
(***************************************************************************)
EXTENDS Integers, Sequences, FiniteSets, TLC

VARIABLES
    input,       \* Lexer.input: the source bytes
    l,           \* Lexer {position, read_position, ch}: Parser.l, or main's `l`
    cur_token,   \* Parser.cur_token
    peek_token,  \* Parser.peek_token
    errors,      \* Parser.errors
    program,     \* parse_program's local `program`
    pending,     \* the statement parse_let_stmt / parse_return_stmt has built
                 \* while its skip-until-`;` loop runs
    pc,          \* where parse_program (or main's token loop) stands
    toks         \* main: the tokens next_token has returned so far

vars == <<input, l, cur_token, peek_token, errors, program, pending, pc, toks>>

----------------------------------------------------------------------------
(* Bounds of the model *)

\* longest source, in bytes, of the exhaustive lexer inputs
MaxLen == 4
\* longest source, in lexemes, of the exhaustive parser inputs
MaxLexemes == 4
\* most infix operators in a generated expression statement
MaxOps == 2
\* most statements in a generated sequence of let statements
MaxStmts == 3
\* read_position grows by one on every read_char, also past the end of the
\* input, where it is only ever compared with input.len(); the unbounded
\* loops (a caller's repeated next_token, the skip loops) stop calling the
\* lexer this many bytes past the end
MaxPastEnd == 6

----------------------------------------------------------------------------
(* Bytes *)

NUL == "NUL"

Letters ==
    {"a","b","c","d","e","f","g","h","i","j","k","l","m",
     "n","o","p","q","r","s","t","u","v","w","x","y","z",
     "A","B","C","D","E","F","G","H","I","J","K","L","M",
     "N","O","P","Q","R","S","T","U","V","W","X","Y","Z","_"}

Digits == {"0","1","2","3","4","5","6","7","8","9"}

is_letter(ch) == ch \in Letters

is_digit(ch) == ch \in Digits

DigitValue(ch) ==
    CASE ch = "0" -> 0 [] ch = "1" -> 1 [] ch = "2" -> 2 [] ch = "3" -> 3
      [] ch = "4" -> 4 [] ch = "5" -> 5 [] ch = "6" -> 6 [] ch = "7" -> 7
      [] ch = "8" -> 8 [] ch = "9" -> 9

----------------------------------------------------------------------------
(* Tokens (enum Token as the lexer and the parser use it) *)

Tok(t) == [type |-> t]

TokIdent(text) == [type |-> "Ident", text |-> text]

TokInt(value) == [type |-> "Int", value |-> value]

EOF == Tok("EOF")

----------------------------------------------------------------------------
(* Lexer *)

\* self.input.as_bytes()[i], 0-based
ByteAt(inp, i) == inp[i + 1]

read_char(inp, lx) ==
    [ch            |-> IF lx.read_position >= Len(inp)
                       THEN NUL
                       ELSE ByteAt(inp, lx.read_position),
     position      |-> lx.read_position,
     read_position |-> lx.read_position + 1]

peek_char(inp, lx) ==
    IF lx.read_position >= Len(inp) THEN NUL ELSE ByteAt(inp, lx.read_position)

LexerNew(inp) ==
    read_char(inp, [position |-> 0, read_position |-> 0, ch |-> NUL])

RECURSIVE skip_whitespace(_, _)
skip_whitespace(inp, lx) ==
    IF lx.ch \in {" ", "\t", "\n", "\r"}
    THEN skip_whitespace(inp, read_char(inp, lx))
    ELSE lx

\* the while loop of read_identifier: the lexer after the run of letters
RECURSIVE ScanLetters(_, _)
ScanLetters(inp, lx) ==
    IF is_letter(lx.ch) THEN ScanLetters(inp, read_char(inp, lx)) ELSE lx

\* the while loop of read_number: the lexer after the run of digits
RECURSIVE ScanDigits(_, _)
ScanDigits(inp, lx) ==
    IF is_digit(lx.ch) THEN ScanDigits(inp, read_char(inp, lx)) ELSE lx

\* &self.input[from..to]
Slice(inp, from, to) == SubSeq(inp, from + 1, to)

\* what read_identifier / read_number return once the run is scanned: the
\* lexer after the run and the slice from the start of the run
RunSlice(inp, lx, after) ==
    [l |-> after, text |-> Slice(inp, lx.position, after.position)]

read_identifier(inp, lx) == RunSlice(inp, lx, ScanLetters(inp, lx))

read_number(inp, lx) == RunSlice(inp, lx, ScanDigits(inp, lx))

\* str::parse::<i64> of a run of decimal digits; a run of the model's sources
\* has at most six digits, far from the overflow on which unwrap() panics
RECURSIVE ParseI64(_)
ParseI64(text) ==
    IF text = <<>> THEN 0
    ELSE 10 * ParseI64(SubSeq(text, 1, Len(text) - 1)) + DigitValue(text[Len(text)])

\* the match of consume_identifier on the literal read
KeywordOrIdent(text) ==
    CASE text = <<"f","n">> -> Tok("Fn")
      [] text = <<"l","e","t">> -> Tok("Let")
      [] text = <<"t","r","u","e">> -> Tok("True")
      [] text = <<"f","a","l","s","e">> -> Tok("False")
      [] text = <<"i","f">> -> Tok("If")
      [] text = <<"e","l","s","e">> -> Tok("Else")
      [] text = <<"r","e","t","u","r","n">> -> Tok("Return")
      [] OTHER -> TokIdent(text)

IdentifierToken(r) == [l |-> r.l, tok |-> KeywordOrIdent(r.text)]

consume_identifier(inp, lx) == IdentifierToken(read_identifier(inp, lx))

NumberToken(r) == [l |-> r.l, tok |-> TokInt(ParseI64(r.text))]

consume_number(inp, lx) == NumberToken(read_number(inp, lx))

\* LexAssignOrEqual without the lookahead: `=` is always Assign
LexAssignNoLookahead(inp, s) == [l |-> s, tok |-> Tok("Assign")]

\* the `=` arm of next_token's match, before the trailing read_char
LexAssignOrEqual(inp, s) ==
    IF peek_char(inp, s) = "="
    THEN [l |-> read_char(inp, s), tok |-> Tok("Equal")]
    ELSE [l |-> s, tok |-> Tok("Assign")]

\* the `!` arm of next_token's match, before the trailing read_char
LexBangOrNotEqual(inp, s) ==
    IF peek_char(inp, s) = "="
    THEN [l |-> read_char(inp, s), tok |-> Tok("NotEqual")]
    ELSE [l |-> s, tok |-> Tok("Bang")]

\* the single-byte arms of next_token's match; no arm matches a byte that is
\* neither a letter nor a digit: Illegal
SingleByteToken(ch) ==
    CASE ch = "+" -> Tok("Plus")
      [] ch = "-" -> Tok("Minus")
      [] ch = "*" -> Tok("Asterisk")
      [] ch = "/" -> Tok("Slash")
      [] ch = "<" -> Tok("Lt")
      [] ch = ">" -> Tok("Gt")
      [] ch = "," -> Tok("Comma")
      [] ch = ";" -> Tok("Semicolon")
      [] ch = "(" -> Tok("Lparen")
      [] ch = ")" -> Tok("Rparen")
      [] ch = "{" -> Tok("Lbrace")
      [] ch = "}" -> Tok("Rbrace")
      [] ch = NUL -> EOF
      [] OTHER -> Tok("Illegal")

\* the match arms without the read_char that follows them
NoTrailingReadChar(inp, r) == r

\* the read_char that ends next_token on every arm but the two early returns
TrailingReadChar(inp, r) == [l |-> read_char(inp, r.l), tok |-> r.tok]

\* next_token's match on self.ch, s being the lexer after skip_whitespace
MatchCh(inp, s) ==
    IF s.ch = "=" THEN TrailingReadChar(inp, LexAssignOrEqual(inp, s))
    ELSE IF s.ch = "!" THEN TrailingReadChar(inp, LexBangOrNotEqual(inp, s))
    ELSE IF s.ch \in {"+","-","*","/","<",">",",",";","(",")","{","}",NUL}
        THEN TrailingReadChar(inp, [l |-> s, tok |-> SingleByteToken(s.ch)])
    ELSE IF is_letter(s.ch) THEN consume_identifier(inp, s)
    ELSE IF is_digit(s.ch) THEN consume_number(inp, s)
    ELSE TrailingReadChar(inp, [l |-> s, tok |-> SingleByteToken(s.ch)])

\* Lexer::next_token: [l |-> the lexer afterwards, tok |-> the token returned]
LexNextToken(inp, lx) == MatchCh(inp, skip_whitespace(inp, lx))

----------------------------------------------------------------------------
(* AST (the values parser.rs builds) *)

\* Option::None
None == [kind |-> "None"]

Ident(text) == [kind |-> "Ident", text |-> text]

ExprIdent(ident) == [kind |-> "ExprIdent", ident |-> ident]

\* Expr::Literal(Literal::Int(value))
ExprInt(value) == [kind |-> "ExprLiteralInt", value |-> value]

ExprPrefix(op, right) == [kind |-> "ExprPrefix", op |-> op, right |-> right]

ExprInfix(op, left, right) ==
    [kind |-> "ExprInfix", op |-> op, left |-> left, right |-> right]

StmtLet(name, expr) == [kind |-> "Let", name |-> name, expr |-> expr]

StmtReturn(expr) == [kind |-> "Return", expr |-> expr]

StmtExpr(expr) == [kind |-> "Expr", expr |-> expr]

\* Precedence::Lowest, the only level parser.rs ever passes
Lowest == "Lowest"

----------------------------------------------------------------------------
(* Parser: operators over p = [l, cur_token, peek_token, errors] *)
\* Refill without the swap: cur_token is never replaced
RefillNoShift(p, r) ==
    [p EXCEPT !.peek_token = r.tok, !.l = r.l]

\* Parser::next_token: swap cur and peek, then overwrite peek with the token
\* r.tok the lexer returns
Refill(p, r) ==
    [p EXCEPT !.cur_token = p.peek_token, !.peek_token = r.tok, !.l = r.l]

next_token(inp, p) == Refill(p, LexNextToken(inp, p.l))

ParserNew(inp) ==
    next_token(inp, next_token(inp,
        [l |-> LexerNew(inp), cur_token |-> EOF, peek_token |-> EOF,
         errors |-> <<>>]))

cur_token_is(p, tok) == p.cur_token = tok

peek_token_is(p, tok) == p.peek_token = tok

InfixTokens ==
    {"Plus", "Minus", "Asterisk", "Slash", "Lt", "Gt", "Equal", "NotEqual"}

peek_token_is_infix(p) == p.peek_token.type \in InfixTokens

\* the message peek_error formats: the expected token and the one found
peek_error(p, tok) ==
    [p EXCEPT !.errors = Append(@, [expected |-> tok, got |-> p.peek_token])]

\* consume_token that reports the expected token without advancing onto it
consume_token_no_advance(inp, p, tok) ==
    IF peek_token_is(p, tok)
    THEN [p |-> p, ok |-> TRUE]
    ELSE [p |-> peek_error(p, tok), ok |-> FALSE]

consume_token(inp, p, tok) ==
    IF peek_token_is(p, tok)
    THEN [p |-> next_token(inp, p), ok |-> TRUE]
    ELSE [p |-> peek_error(p, tok), ok |-> FALSE]

parse_ident(p) ==
    IF p.cur_token.type = "Ident" THEN Ident(p.cur_token.text) ELSE None

\* Some(x) => Some(f(x)), None => None, for the idents parse_ident returns
SomeExprIdent(ident) == IF ident # None THEN ExprIdent(ident) ELSE None

parse_ident_expr(p) == SomeExprIdent(parse_ident(p))

parse_int_expr(p) ==
    IF p.cur_token.type = "Int" THEN ExprInt(p.cur_token.value) ELSE None

\* the parsing functions return [p |-> the parser afterwards, expr |-> the
\* Option<Expr>] or [p, stmt |-> the Option<Stmt>]
NoExpr(p) == [p |-> p, expr |-> None]

NoStmt(p) == [p |-> p, stmt |-> None]

RECURSIVE parse_expr(_, _, _)
RECURSIVE parse_prefix_expr(_, _)
RECURSIVE parse_infix_expr(_, _, _)

\* parse_prefix_expr's closing match on the operand parse_expr returned
WrapPrefix(prefix, r) ==
    [p |-> r.p,
     expr |-> IF r.expr # None THEN ExprPrefix(prefix, r.expr) ELSE None]

parse_prefix_expr(inp, p) ==
    IF p.cur_token.type \notin {"Bang", "Plus", "Minus"}
    THEN NoExpr(p)
    ELSE WrapPrefix(p.cur_token.type,
                    parse_expr(inp, next_token(inp, p), Lowest))

\* parse_infix_expr's closing match on the right operand parse_expr returned
WrapInfix(infix, left, r) ==
    [p |-> r.p,
     expr |-> IF r.expr # None THEN ExprInfix(infix, left, r.expr) ELSE None]

parse_infix_expr(inp, p, left) ==
    IF p.cur_token.type \notin InfixTokens
    THEN NoExpr(p)
    ELSE WrapInfix(p.cur_token.type, left,
                   parse_expr(inp, next_token(inp, p), Lowest))

\* parse_expr after its prefix match has produced `left`
ParseExprAfterPrefix(inp, left) ==
    IF ~peek_token_is_infix(left.p) THEN left
    ELSE IF left.expr # None
         THEN parse_infix_expr(inp, next_token(inp, left.p), left.expr)
         ELSE NoExpr(next_token(inp, left.p))

\* `precedence` is accepted and never read, as in parser.rs
parse_expr(inp, p, precedence) ==
    IF p.cur_token.type = "Ident"
        THEN ParseExprAfterPrefix(inp, [p |-> p, expr |-> parse_ident_expr(p)])
    ELSE IF p.cur_token.type = "Int"
        THEN ParseExprAfterPrefix(inp, [p |-> p, expr |-> parse_int_expr(p)])
    ELSE IF p.cur_token.type \in {"Bang", "Plus", "Minus"}
        THEN ParseExprAfterPrefix(inp, parse_prefix_expr(inp, p))
    ELSE NoExpr(p)

\* parse_expr_stmt's match on the expression r parse_expr returned
ExprStmtOf(inp, r) ==
    IF r.expr # None
    THEN [p |-> consume_token(inp, r.p, Tok("Semicolon")).p,
          stmt |-> StmtExpr(r.expr)]
    ELSE NoStmt(r.p)

parse_expr_stmt(inp, p) == ExprStmtOf(inp, parse_expr(inp, p, Lowest))

\* parse_let_stmt up to its skip loop, in the order of its early returns;
\* stmt is None where the code returns None, else the Let statement the code
\* returns once the loop has ended
LetAfterExpr(name, r) ==
    IF r.expr = None THEN NoStmt(r.p)
    ELSE [p |-> r.p, stmt |-> StmtLet(name, r.expr)]

LetAfterAssign(inp, name, c) ==
    IF ~c.ok THEN NoStmt(c.p)
    ELSE LetAfterExpr(name, parse_expr(inp, next_token(inp, c.p), Lowest))

LetAfterIdent(inp, p) ==
    IF parse_ident(p) = None THEN NoStmt(p)
    ELSE LetAfterAssign(inp, parse_ident(p),
                        consume_token(inp, p, Tok("Assign")))

ParseLetHead(inp, p) ==
    IF p.peek_token.type # "Ident" THEN NoStmt(p)
    ELSE LetAfterIdent(inp, next_token(inp, p))

\* parse_return_stmt up to its skip loop
ReturnAfterExpr(r) ==
    IF r.expr = None THEN NoStmt(r.p)
    ELSE [p |-> r.p, stmt |-> StmtReturn(r.expr)]

ParseReturnHead(inp, p) ==
    ReturnAfterExpr(parse_expr(inp, next_token(inp, p), Lowest))

----------------------------------------------------------------------------
(* Source strings the specifications start from *)

SeqsUpTo(S, n) == UNION {[1..k -> S] : k \in 0..n}

RECURSIVE Flatten(_)
Flatten(ss) == IF ss = <<>> THEN <<>> ELSE Head(ss) \o Flatten(Tail(ss))

\* bytes of each class next_token's match tells apart: the two lookahead
\* operators, a digit, a letter, whitespace, punctuation, the zero byte and a
\* byte no arm matches
LexAlphabet == {"=", "!", "1", "a", " ", ";", NUL, "@"}

\* "10 == 10;" and "10 != 9;" (lexer.rs, test_next_token)
SrcEqual == <<"1","0"," ","=","="," ","1","0",";">>

SrcNotEqual == <<"1","0"," ","!","="," ","9",";">>

LexSources == SeqsUpTo(LexAlphabet, MaxLen) \cup {SrcEqual, SrcNotEqual}

\* lexemes of the exhaustive parser inputs, well-formed or not
ParserLexemes ==
    {<<"l","e","t"," ">>, <<"r","e","t","u","r","n"," ">>, <<"x">>, <<"5">>,
     <<"=">>, <<"+">>, <<";">>, <<"@">>}

GenericSources == {Flatten(ls) : ls \in SeqsUpTo(ParserLexemes, MaxLexemes)}

\* "let = 5;"
SrcLetNoIdent == <<"l","e","t"," ","="," ","5",";">>

\* "!5;" and "-15;" (parser.rs, test_prefix_expr)
SrcBang5 == <<"!","5",";">>

SrcMinus15 == <<"-","1","5",";">>

\* expression statements: operand i is the integer i, each operand with or
\* without a prefix operator, operands joined by infix operators
PrefixTokens == {"Bang", "Plus", "Minus"}

PrefixText(op) ==
    CASE op = "Bang" -> <<"!">> [] op = "Plus" -> <<"+">> [] op = "Minus" -> <<"-">>

PrefixLexemes == {<<>>} \cup {PrefixText(op) : op \in PrefixTokens}

InfixText(op) ==
    CASE op = "Plus" -> <<" ","+"," ">>
      [] op = "Minus" -> <<" ","-"," ">>
      [] op = "Asterisk" -> <<" ","*"," ">>
      [] op = "Slash" -> <<" ","/"," ">>
      [] op = "Lt" -> <<" ","<"," ">>
      [] op = "Gt" -> <<" ",">"," ">>
      [] op = "Equal" -> <<" ","=","="," ">>
      [] op = "NotEqual" -> <<" ","!","="," ">>

InfixLexemes == {InfixText(op) : op \in InfixTokens}

DigitChar(i) ==
    CASE i = 0 -> "0" [] i = 1 -> "1" [] i = 2 -> "2" [] i = 3 -> "3"
      [] i = 4 -> "4" [] i = 5 -> "5" [] i = 6 -> "6" [] i = 7 -> "7"
      [] i = 8 -> "8" [] i = 9 -> "9"

Terms(i) == {pre \o <<DigitChar(i)>> : pre \in PrefixLexemes}

RECURSIVE ExprChains(_)
ExprChains(n) ==
    IF n = 0 THEN Terms(1)
    ELSE {e \o op \o t : e \in ExprChains(n - 1), op \in InfixLexemes,
                         t \in Terms(n + 1)}

\* the expression texts by their number of infix operators
ExprChainsByOps == [n \in 0..MaxOps |-> ExprChains(n)]

IsExprText(src) == \E n \in 0..MaxOps : src \in ExprChainsByOps[n]

\* an expression text, with or without the `;` that ends the statement
IsExprSource(src) ==
    \/ IsExprText(src)
    \/ /\ src # <<>>
       /\ src[Len(src)] = ";"
       /\ IsExprText(SubSeq(src, 1, Len(src) - 1))

\* sequences of well-formed `let <identifier> = <integer>;` statements, each
\* described by the name and the integer it is rendered from
LetNames == {<<"x">>, <<"f","o","o","b","a","r">>}

LetValues ==
    {[text |-> <<"5">>, value |-> 5], [text |-> <<"1","0">>, value |-> 10],
     [text |-> <<"8","3","8","3","8","3">>, value |-> 838383]}

LetDescrs == SeqsUpTo(LetNames \X LetValues, MaxStmts)

RenderLet(d) ==
    Flatten([i \in 1..Len(d) |->
        <<"\n","l","e","t"," ">> \o d[i][1] \o <<" ","="," ">> \o d[i][2].text
            \o <<";">>])

LetSources == {RenderLet(d) : d \in LetDescrs}

ExampleSources == {SrcLetNoIdent, SrcBang5, SrcMinus15}

----------------------------------------------------------------------------
(* parse_program, one step per loop iteration *)

P == [l |-> l, cur_token |-> cur_token, peek_token |-> peek_token,
      errors |-> errors]

SetParser(p) ==
    /\ l' = p.l
    /\ cur_token' = p.cur_token
    /\ peek_token' = p.peek_token
    /\ errors' = p.errors

\* the lexer may still be called: read_position is within the model's range
CanLex == l.read_position <= Len(input) + MaxPastEnd

\* the parser's fields are those of p
IsParser(p) ==
    /\ l = p.l
    /\ cur_token = p.cur_token
    /\ peek_token = p.peek_token
    /\ errors = p.errors

\* the state after Parser::new(Lexer::new(src)), as parse_program starts
InitWith(src) ==
    /\ input = src
    /\ IsParser(ParserNew(src))
    /\ program = <<>>
    /\ pending = None
    /\ pc = "loop"
    /\ toks = <<>>

Init ==
    \/ \E src \in GenericSources \cup LetSources \cup ExampleSources :
        InitWith(src)
    \/ \E n \in 0..MaxOps : \E e \in ExprChainsByOps[n] :
        \E semi \in {<<>>, <<";">>} : InitWith(e \o semi)

\* parse_program's `match self.parse_stmt()` and `self.next_token()` on the
\* r = [p, stmt] that parse_stmt returned
PushAndAdvance(r) ==
    /\ program' = IF r.stmt # None THEN Append(program, r.stmt) ELSE program
    /\ SetParser(next_token(input, r.p))

\* r = [p, stmt] is where parse_let_stmt / parse_return_stmt stands before
\* its skip loop: it has returned None and the outer loop advances, or it
\* enters the loop holding the statement it will return
AfterHead(r, skip) ==
    IF r.stmt = None
    THEN /\ PushAndAdvance(r)
         /\ UNCHANGED <<pending, pc>>
    ELSE /\ SetParser(r.p)
         /\ pending' = r.stmt
         /\ pc' = skip
         /\ UNCHANGED program

\* an iteration of parse_program's loop on `let`: parse_let_stmt returns None
\* and the loop advances, or parse_let_stmt reaches its skip loop
ParseLetStmt ==
    /\ pc = "loop"
    /\ ~cur_token_is(P, EOF)
    /\ cur_token.type = "Let"
    /\ AfterHead(ParseLetHead(input, P), "let_skip")
    /\ UNCHANGED <<input, toks>>

\* an iteration of parse_let_stmt's `while !cur_token_is(Semicolon)`
LetSkip ==
    /\ pc = "let_skip"
    /\ ~cur_token_is(P, Tok("Semicolon"))
    /\ CanLex
    /\ SetParser(next_token(input, P))
    /\ UNCHANGED <<input, program, pending, pc, toks>>

\* parse_let_stmt's loop ends: Some(Let) is pushed and the outer loop advances
LetDone ==
    /\ pc = "let_skip"
    /\ cur_token_is(P, Tok("Semicolon"))
    /\ program' = Append(program, pending)
    /\ pending' = None
    /\ SetParser(next_token(input, P))
    /\ pc' = "loop"
    /\ UNCHANGED <<input, toks>>

ParseReturnStmt ==
    /\ pc = "loop"
    /\ ~cur_token_is(P, EOF)
    /\ cur_token.type = "Return"
    /\ AfterHead(ParseReturnHead(input, P), "return_skip")
    /\ UNCHANGED <<input, toks>>

\* an iteration of parse_return_stmt's `while !cur_token_is(Semicolon)`
ReturnSkip ==
    /\ pc = "return_skip"
    /\ ~cur_token_is(P, Tok("Semicolon"))
    /\ CanLex
    /\ SetParser(next_token(input, P))
    /\ UNCHANGED <<input, program, pending, pc, toks>>

ReturnDone ==
    /\ pc = "return_skip"
    /\ cur_token_is(P, Tok("Semicolon"))
    /\ program' = Append(program, pending)
    /\ pending' = None
    /\ SetParser(next_token(input, P))
    /\ pc' = "loop"
    /\ UNCHANGED <<input, toks>>

\* an iteration of parse_program's loop on any other token: parse_expr_stmt,
\* the push of its statement if any, and the advance
ParseExprStmt ==
    /\ pc = "loop"
    /\ ~cur_token_is(P, EOF)
    /\ cur_token.type \notin {"Let", "Return"}
    /\ PushAndAdvance(parse_expr_stmt(input, P))
    /\ UNCHANGED <<input, pending, pc, toks>>

\* cur_token is EOF: the loop ends and parse_program returns `program`
ParseProgramReturn ==
    /\ pc = "loop"
    /\ cur_token_is(P, EOF)
    /\ pc' = "done"
    /\ UNCHANGED <<input, l, cur_token, peek_token, errors, program, pending,
                   toks>>

Next ==
    \/ ParseLetStmt
    \/ LetSkip
    \/ LetDone
    \/ ParseReturnStmt
    \/ ReturnSkip
    \/ ReturnDone
    \/ ParseExprStmt
    \/ ParseProgramReturn

Spec == Init /\ [][Next]_vars

----------------------------------------------------------------------------
(* A caller driving the lexer token by token *)

LexInit ==
    \E src \in LexSources :
        /\ input = src
        /\ l = LexerNew(src)
        /\ toks = <<>>
        /\ pc = "lexing"
        /\ cur_token = EOF
        /\ peek_token = EOF
        /\ errors = <<>>
        /\ program = <<>>
        /\ pending = None

\* next_token has returned r.tok and left the lexer as r.l
Returned(r) ==
    /\ l' = r.l
    /\ toks' = Append(toks, r.tok)

\* one call of Lexer::next_token
CallNextToken ==
    /\ pc = "lexing"
    /\ CanLex
    /\ Returned(LexNextToken(input, l))
    /\ UNCHANGED <<input, cur_token, peek_token, errors, program, pending, pc>>

LexNext == CallNextToken

LexSpec == LexInit /\ [][LexNext]_vars

----------------------------------------------------------------------------
(* A caller advancing the parser token by token *)

\* the state after Parser::new(Lexer::new(src)); toks lists the values
\* cur_token has held so far
AdvanceInitWith(src, p) ==
    /\ input = src
    /\ IsParser(p)
    /\ toks = <<p.cur_token>>
    /\ pc = "advancing"
    /\ program = <<>>
    /\ pending = None

AdvanceInit ==
    \E src \in LexSources \cup ExampleSources :
        AdvanceInitWith(src, ParserNew(src))

\* Parser::next_token has left the parser as p
Advanced(p) ==
    /\ SetParser(p)
    /\ toks' = Append(toks, p.cur_token)

\* one call of Parser::next_token
CallParserNextToken ==
    /\ pc = "advancing"
    /\ CanLex
    /\ Advanced(next_token(input, P))
    /\ UNCHANGED <<input, program, pending, pc>>

AdvanceNext == CallParserNextToken

AdvanceSpec == AdvanceInit /\ [][AdvanceNext]_vars

----------------------------------------------------------------------------
(* Properties *)

SkipPcs == {"let_skip", "return_skip"}

\* the lexer has read past the last byte: every token from here on is EOF
LexerAtEnd == l.position >= Len(input)

\* a skip loop runs with nothing but EOF left in cur, peek and the lexer
SkipLoopAtEnd ==
    /\ pc \in SkipPcs
    /\ cur_token = EOF
    /\ peek_token = EOF
    /\ LexerAtEnd

\* a skip loop that has run out of tokens never ends: its iteration leaves
\* it where it was
SkipLoopAtEndIsAbsorbing == [][SkipLoopAtEnd => SkipLoopAtEnd']_vars

\* C1: parse_program terminates on every source: no skip-until-`;` loop is
\* ever left iterating with the token stream exhausted (cur, peek and every
\* later token EOF), where an iteration consumes no token and `;` never comes.
C1_ParseProgramTerminates == ~SkipLoopAtEnd

\* on a source without a zero byte, EOF is returned only past the last byte
\* and is returned for ever after
EOFIsFixedPointWithoutNUL ==
    (\A i \in 1..Len(input) : input[i] # NUL) =>
        \A i \in 1..(Len(toks) - 1) : toks[i] = EOF => toks[i + 1] = EOF

\* C2: once next_token has returned EOF, every later call returns EOF.
C2_EOFIsFixedPoint ==
    \A i \in 1..(Len(toks) - 1) : toks[i] = EOF => toks[i + 1] = EOF

\* the binding strength the specification gives each infix operator
\* (ast.rs, enum Precedence: Equals < LessGreater < Sum < Product)
PrecedenceOf(op) ==
    CASE op \in {"Equal", "NotEqual"} -> 1
      [] op \in {"Lt", "Gt"} -> 2
      [] op \in {"Plus", "Minus"} -> 3
      [] op \in {"Asterisk", "Slash"} -> 4

\* "1 op1 2 op2 3;"
Chain2Src(op1, op2) ==
    <<"1">> \o InfixText(op1) \o <<"2">> \o InfixText(op2) \o <<"3", ";">>

\* (1 op1 2) op2 3
LeftTree(op1, op2) ==
    ExprInfix(op2, ExprInfix(op1, ExprInt(1), ExprInt(2)), ExprInt(3))

\* 1 op1 (2 op2 3)
RightTree(op1, op2) ==
    ExprInfix(op1, ExprInt(1), ExprInfix(op2, ExprInt(2), ExprInt(3)))

\* C3: precedence climbing: parsing "1 op1 2 op2 3;" with operators of
\* different levels puts the higher-precedence operator in the deeper subtree,
\* whichever comes first, so "1 + 2 * 3;" is 1 + (2 * 3) and "1 * 2 + 3;" is
\* (1 * 2) + 3.
C3_PrecedenceClimbing ==
    pc = "done" =>
        \A op1, op2 \in InfixTokens :
            (PrecedenceOf(op1) # PrecedenceOf(op2) /\ input = Chain2Src(op1, op2))
            => program = <<StmtExpr(IF PrecedenceOf(op1) > PrecedenceOf(op2)
                                    THEN LeftTree(op1, op2)
                                    ELSE RightTree(op1, op2))>>

\* C4: `let` followed by a token that is no identifier: a diagnostic is
\* recorded and no statement is returned; "let = 5;" parses to a Program of
\* zero statements with a non-empty diagnostic list.
C4_LetWithoutIdentifier ==
    /\ [][(pc = "loop" /\ cur_token.type = "Let" /\ peek_token.type # "Ident")
            => (Len(errors') > Len(errors) /\ program' = program)]_vars
    /\ []((input = SrcLetNoIdent /\ pc = "done")
            => (program = <<>> /\ errors # <<>>))

\* the Program test_let_statements expects of the statements d describes
LetProgram(d) ==
    [i \in 1..Len(d) |-> StmtLet(Ident(d[i][1]), ExprInt(d[i][2].value))]

\* each let source with the Program expected of it
LetTable == {<<RenderLet(d), LetProgram(d)>> : d \in LetDescrs}

LetExpected(src) == (CHOOSE row \in LetTable : row[1] = src)[2]

\* C5: a source of n well-formed `let <identifier> = <integer>;` statements
\* parses without a diagnostic, never runs a skip loop out of tokens, and
\* parse_program returns exactly the n Let(Ident(name), Literal(Int(value)))
\* statements in source order.
C5_LetStatements ==
    input \in LetSources =>
        /\ errors = <<>>
        /\ ~SkipLoopAtEnd
        /\ Len(program) <= Len(LetExpected(input))
        /\ program = SubSeq(LetExpected(input), 1, Len(program))
        /\ pc = "done" => program = LetExpected(input)

\* parse_program has returned the three statements of a three-statement source
C5_Witness ==
    /\ input \in LetSources
    /\ pc = "done"
    /\ Len(program) = 3
    /\ program[1] # program[2]

\* the Program of the source src, when parse_program needs one iteration:
\* the statement of parse_expr_stmt
OneExprStmt(src) == <<parse_expr_stmt(src, ParserNew(src)).stmt>>

\* C6: an expression statement with and without its trailing `;` parses to
\* the same single Expr statement, and neither records a diagnostic.
C6_SemicolonOptional ==
    (pc = "done" /\ IsExprSource(input)) =>
        /\ Len(program) = 1
        /\ errors = <<>>
        /\ IsExprText(input) => program = OneExprStmt(input \o <<";">>)

\* tokens parse_expr has a prefix handler for
PrefixHandled == {"Ident", "Int", "Bang", "Plus", "Minus"}

\* C7: when the current token cannot start an expression the statement is
\* omitted from the Program, the cursor advances and a diagnostic is appended;
\* every iteration of the loop that adds no statement adds a diagnostic.
C7_DroppedStatementLeavesDiagnostic ==
    [][/\ (pc = "loop" /\ cur_token.type \notin PrefixHandled \cup {"Let", "Return", "EOF"})
            => (program' = program /\ Len(errors') > Len(errors))
       /\ (pc = "loop" /\ pc' = "loop" /\ program' = program)
            => Len(errors') > Len(errors)]_vars

Last(seq) == seq[Len(seq)]

\* the lexer as next_token's match finds it: after skip_whitespace
AtMatch == skip_whitespace(input, l)

\* C8: when next_token's match is on `=` or `!`: if the next byte is `=` the
\* call consumes both bytes and returns Equal / NotEqual, else it consumes one
\* byte and returns Assign / Bang; "10 == 10;" and "10 != 9;" tokenize to
\* [Int(10), Equal, Int(10), Semicolon, EOF] and
\* [Int(10), NotEqual, Int(9), Semicolon, EOF].
C8_TwoCharacterOperators ==
    [][Len(toks') = Len(toks) + 1 =>
        /\ AtMatch.ch \in {"=", "!"} =>
            IF peek_char(input, AtMatch) = "="
            THEN /\ l'.position = AtMatch.position + 2
                 /\ Last(toks') = IF AtMatch.ch = "=" THEN Tok("Equal")
                                  ELSE Tok("NotEqual")
            ELSE /\ l'.position = AtMatch.position + 1
                 /\ Last(toks') = IF AtMatch.ch = "=" THEN Tok("Assign")
                                  ELSE Tok("Bang")
        /\ (input = SrcEqual /\ Len(toks') = 5) =>
            toks' = <<TokInt(10), Tok("Equal"), TokInt(10), Tok("Semicolon"), EOF>>
        /\ (input = SrcNotEqual /\ Len(toks') = 5) =>
            toks' = <<TokInt(10), Tok("NotEqual"), TokInt(9), Tok("Semicolon"), EOF>>
      ]_vars

\* "10 != 9;" has been tokenized to its EOF, `!=` as the one token NotEqual
C8_Witness ==
    /\ input = SrcNotEqual
    /\ Len(toks) = 5
    /\ toks[2] = Tok("NotEqual")
    /\ l.position >= Len(input)

\* C9: operators of equal precedence associate left to right: parsing
\* "1 op1 2 op2 3;" with op1 and op2 of one level gives (1 op1 2) op2 3.
C9_LeftAssociative ==
    pc = "done" =>
        \A op1, op2 \in InfixTokens :
            (PrecedenceOf(op1) = PrecedenceOf(op2) /\ input = Chain2Src(op1, op2))
            => program = <<StmtExpr(LeftTree(op1, op2))>>

\* C10: a prefix operator takes only the operand next to it: "p 1 op 2;" is
\* Infix(op, Prefix(p, 1), 2) and "p 1;" is Prefix(p, 1); "!5;" is
\* Prefix(Bang, Int(5)) and "-15;" is Prefix(Minus, Int(15)).
C10_PrefixBindsTighter ==
    pc = "done" =>
        /\ \A pre \in PrefixTokens :
            /\ input = PrefixText(pre) \o <<"1", ";">>
                => program = <<StmtExpr(ExprPrefix(pre, ExprInt(1)))>>
            /\ \A op \in InfixTokens :
                input = PrefixText(pre) \o <<"1">> \o InfixText(op) \o <<"2", ";">>
                => program = <<StmtExpr(ExprInfix(op, ExprPrefix(pre, ExprInt(1)),
                                                  ExprInt(2)))>>
        /\ input = SrcBang5 => program = <<StmtExpr(ExprPrefix("Bang", ExprInt(5)))>>
        /\ input = SrcMinus15
            => program = <<StmtExpr(ExprPrefix("Minus", ExprInt(15)))>>

\* the results [l, tok] of the first n calls of Lexer::next_token from lexer
\* state lx, in order
RECURSIVE LexStreamFrom(_, _, _)
LexStreamAfter(inp, r, n) == <<r>> \o LexStreamFrom(inp, r.l, n - 1)

LexStreamFrom(inp, lx, n) ==
    IF n = 0 THEN <<>>
    ELSE LexStreamAfter(inp, LexNextToken(inp, lx), n)

LexStream(inp, n) == LexStreamFrom(inp, LexerNew(inp), n)

\* cur_token is the k-th and peek_token the (k+1)-th token of the stream s,
\* the lexer is as the (k+1)-th call left it, and the values cur_token has
\* held are the first k tokens of s in order
BufferAt(s, k) ==
    /\ cur_token = s[k].tok
    /\ peek_token = s[k + 1].tok
    /\ l = s[k + 1].l
    /\ \A i \in 1..k : toks[i] = s[i].tok

\* C11: after Parser::new and after every Parser::next_token, with k the
\* number of values cur_token has held, cur_token is the k-th token of the
\* lexer's stream and peek_token the (k+1)-th, the lexer has been called
\* exactly k+1 times, and the successive values of cur_token are the
\* stream's first k tokens in order
C11_LookaheadBuffer ==
    pc = "advancing" => BufferAt(LexStream(input, Len(toks) + 1), Len(toks))

\* cur_token has held three tokens, neighbours differing, and the buffer
\* has reached the end of the stream: (last token, EOF), as on "=!1"
C11_Witness ==
    /\ pc = "advancing"
    /\ Len(toks) = 3
    /\ toks[1] # toks[2]
    /\ toks[2] # toks[3]
    /\ cur_token # EOF
    /\ peek_token = EOF

\* during parse_program the buffer is at some place k of the lexer's stream
LookaheadBufferInParseProgram ==
    pc \in {"loop", "let_skip", "return_skip", "done"} =>
        \E k \in 1..(Len(input) + MaxPastEnd + 2) :
            /\ cur_token = LexStream(input, k + 1)[k].tok
            /\ peek_token = LexStream(input, k + 1)[k + 1].tok
            /\ l = LexStream(input, k + 1)[k + 1].l

====
